---- MODULE Spec2Model ----
(***************************************************************************)
(* Model of simplrefq-cloud-optimized.py: the Telegram reward bot's        *)
(* handlers over the MongoDB `users` collection.                           *)
(*                                                                         *)
(* The collection is a sequence of documents in insertion order.  The      *)
(* handlers reach it only through find_one / insert_one / update_one /     *)
(* find().sort().limit() / aggregate(); each such call is one atomic step  *)
(* of the store.  A handler is a sequence of such steps with no lock,      *)
(* transaction or conditional filter around them, so the steps of two      *)
(* handler invocations (two workers of the bot against the same database)  *)
(* may interleave between store calls.  Inside one asyncio event loop no    *)
(* await separates a handler's find_one from its write; the interleavings  *)
(* of Spec are those of invocations served by different workers of the     *)
(* bot, which the code does nothing to exclude.  Spec interleaves the      *)
(* handlers that write to the collection and the two aggregate reads;      *)
(* SpecSeq is the whole program, every handler of the menu, with           *)
(* invocations run one at a time.                                          *)
(*                                                                         *)
(* Time is counted in ticks, TicksPerDay ticks to a calendar day.  An      *)
(* instant is a number of ticks since the UTC epoch; `tz` is the offset of *)
(* the server's local clock from UTC, fixed for a run.                     *)
(***************************************************************************)
EXTENDS Integers, Sequences, FiniteSets, TLC

\* ---- bounds ----
NProcs == 2
NUsers == 2
MaxNow == 2
TicksPerDay == 2
MaxCalls == 3

\* ---- program constants ----
DailyAmount == 10
LeaderboardLimit == 10
NoneT == -1

Procs == 1..NProcs
UserIds == 1..NUsers
\* line 60: the username an update of user u carries; user 1 has the Telegram
\* username anna, the others have none and get the fallback User_<id>
Username(u) == IF u = 1 THEN "anna" ELSE "User_" \o ToString(u)
\* the server's local clock is on UTC, or ahead of it by one tick
TZOffsets == {0, 1}
\* the users whose referral link is in circulation
Inviters == {1}
\* the wallet addresses a user may want to link, by number
Addresses == {1, 2, 3}
\* what address a looks like: 1 is 0x and 40 hex digits, 2 has a non-hex
\* character, 3 is one digit short
Shape(a) ==
    CASE a = 1 -> [prefix |-> "0x", length |-> 42, hex |-> TRUE]
      [] a = 2 -> [prefix |-> "0x", length |-> 42, hex |-> FALSE]
      [] a = 3 -> [prefix |-> "0x", length |-> 41, hex |-> TRUE]

VARIABLES
    users,      \* users_collection: sequence of documents, insertion order
    now,        \* the clock: current instant in ticks (UTC)
    tz,         \* offset of the server's local time from UTC, in ticks
    pc,         \* per handler slot: position in the running handler
    local,      \* per handler slot: the handler's local variables
    msg,        \* the last message the bot sent
    tally,      \* history: per user and UTC day, the claims begun that day that
                \* replied success (ok) and already-claimed (no)
    calls,      \* history: number of handler invocations begun so far
    fb,         \* firebase_admin: the default app of the process exists
    rem         \* the scheduler's daily_reminder job: position and progress

vars == <<users, now, tz, pc, local, msg, tally, calls, fb, rem>>

\* ---- dates ----
\* date.today(): the calendar date of the server's local clock at instant t
DateToday(t) == (t + tz) \div TicksPerDay
\* utc.localize(datetime.combine(d, datetime.min.time())): 00:00 UTC of date d
Midnight(d) == d * TicksPerDay
\* x.date() of an instant read as UTC
DateOf(x) == x \div TicksPerDay
\* line 164
Today(t) == Midnight(DateToday(t))
\* the UTC calendar day of instant t
UTCDay(t) == t \div TicksPerDay

\* ---- the store ----
Matching(us, uid) == {i \in 1..Len(us) : us[i].user_id = uid}
Min(S) == CHOOSE x \in S : \A y \in S : x <= y
\* find_one({"user_id": uid}): index of the first matching document, 0 if none
FindOne(us, uid) == IF Matching(us, uid) = {} THEN 0 ELSE Min(Matching(us, uid))
NewUser(uid, name) ==
    [user_id |-> uid, username |-> name, balance |-> 0, wallet |-> 0,
     rank |-> NoneT, joined_channel |-> TRUE, last_claimed |-> NoneT,
     tasks_completed |-> <<>>]
InsertOne(us, doc) == Append(us, doc)
\* variant: the update replaces the document by a fresh one
SetJoined_Reset(us, uid) ==
    IF FindOne(us, uid) = 0 THEN us
    ELSE [us EXCEPT ![FindOne(us, uid)] = NewUser(uid, us[FindOne(us, uid)].username)]
\* update_one({"user_id": uid}, {"$set": {"joined_channel": True}})
SetJoined(us, uid) ==
    IF FindOne(us, uid) = 0 THEN us
    ELSE [us EXCEPT ![FindOne(us, uid)].joined_channel = TRUE]
\* variant: the update sets the balance and leaves last_claimed
SetClaim_BalanceOnly(us, uid, b, t) ==
    IF FindOne(us, uid) = 0 THEN us
    ELSE [us EXCEPT ![FindOne(us, uid)].balance = b]
\* variant: the update writes a whole document built from the two values, so
\* the fields it does not name fall back to their defaults
SetClaim_Replace(us, uid, b, t) ==
    IF FindOne(us, uid) = 0 THEN us
    ELSE [us EXCEPT ![FindOne(us, uid)] =
             [NewUser(uid, us[FindOne(us, uid)].username) EXCEPT
                 !.balance = b, !.last_claimed = t, !.joined_channel = FALSE]]
\* update_one({"user_id": uid}, {"$set": {"balance": b, "last_claimed": t}})
SetClaim(us, uid, b, t) ==
    IF FindOne(us, uid) = 0 THEN us
    ELSE [us EXCEPT ![FindOne(us, uid)].balance = b,
                    ![FindOne(us, uid)].last_claimed = t]

\* ---- ranking and leaderboard queries ----
\* variant: sortBy balance ascending
Rank_Ascending(us, i) == 1 + Cardinality({j \in 1..Len(us) : us[j].balance < us[i].balance})
\* $rank over sortBy balance descending: documents of equal balance share a
\* rank, the next rank skips (1, 1, 3) (lines 188-194)
Rank(us, i) == 1 + Cardinality({j \in 1..Len(us) : us[j].balance > us[i].balance})
\* the orders in which a sort on balance descending may return the documents:
\* the key orders documents of different balance only
SortedByBalance(us) ==
    {f \in [1..Len(us) -> 1..Len(us)] :
        /\ \A a, b \in 1..Len(us) : a # b => f[a] # f[b]
        /\ \A a, b \in 1..Len(us) : a < b => us[f[a]].balance >= us[f[b]].balance}
\* .limit(n) of a cursor
Limit(f, n) == [a \in 1..(IF Len(f) < n THEN Len(f) ELSE n) |-> f[a]]
\* the lines of the leaderboard message, one per document of the cursor (lines 153-155)
Board(us, f) == [a \in 1..Len(f) |-> [username |-> us[f[a]].username, balance |-> us[f[a]].balance]]
\* user_rank[0] after $match: the first document of user uid in the sorted output
RankedDoc(us, uid) ==
    CHOOSE i \in Matching(us, uid) : \A j \in Matching(us, uid) : us[i].balance >= us[j].balance

\* (args is context.args of a /start update: the user id the referral link
\* names, 0 for none)
NoLocal == [user_id |-> 0, username |-> "", found |-> FALSE, balance |-> 0, now |-> 0,
            args |-> 0]
\* a message of the bot to chat c
Msg(c, t) == [chat |-> c, text |-> t, rank |-> 0, balance |-> 0, wallet |-> 0,
              board |-> <<>>]
NoMsg == Msg(0, "none")
AllIdle == \A q \in Procs : pc[q] = "idle"

\* the collection outlives the process: at start-up it is empty or holds the
\* documents of earlier runs, here the registration of user 1
InitStores == {<<>>, <<NewUser(1, Username(1))>>}

\* the reminder job before its first run: n documents in the cursor, i the
\* next of them, runs the runs begun; history: reached and sent count the
\* documents of the current run that got as far as messaging.send, and whose
\* send returned
NoRun == [pc |-> "idle", i |-> 0, n |-> 0, runs |-> 0, reached |-> 0, sent |-> 0]

Init ==
    /\ users \in InitStores
    /\ now = 0
    /\ tz \in TZOffsets
    /\ pc = [p \in Procs |-> "idle"]
    /\ local = [p \in Procs |-> NoLocal]
    /\ msg = NoMsg
    /\ tally = [u \in UserIds |-> [d \in 0..UTCDay(MaxNow) |-> [ok |-> 0, no |-> 0]]]
    /\ calls = 0
    /\ fb = FALSE
    /\ rem = NoRun

\* the clock advances
Tick ==
    /\ now < MaxNow
    /\ now' = now + 1
    /\ UNCHANGED <<users, tz, pc, local, msg, tally, calls, fb, rem>>

\* an update arrives and a handler invocation begins
Begin ==
    /\ calls < MaxCalls
    /\ calls' = calls + 1

\* the handler in slot p returns
Return(p) ==
    /\ pc' = [pc EXCEPT ![p] = "idle"]
    /\ local' = [local EXCEPT ![p] = NoLocal]

\* ---- start (lines 58-105) ----
\* variant: the non-member is registered all the same, as not joined
StartNotMember_Register(p, u) ==
    /\ pc[p] = "idle"
    /\ Begin
    /\ msg' = Msg(u, "join")
    /\ users' = IF FindOne(users, u) = 0
                THEN InsertOne(users, [NewUser(u, Username(u)) EXCEPT !.joined_channel = FALSE])
                ELSE users
    /\ UNCHANGED <<now, tz, pc, local, tally, fb, rem>>

\* has_joined_channel is False: reply and return (lines 63-71)
StartNotMember(p, u) ==
    /\ pc[p] = "idle"
    /\ Begin
    /\ msg' = Msg(u, "join")
    /\ UNCHANGED <<users, now, tz, pc, local, tally, fb, rem>>

\* has_joined_channel is True, then find_one (lines 63, 74)
StartFind(p, u, ref) ==
    /\ pc[p] = "idle"
    /\ Begin
    /\ pc' = [pc EXCEPT ![p] = "start_write"]
    /\ local' = [local EXCEPT ![p] = [NoLocal EXCEPT !.user_id = u, !.username = Username(u),
                                                    !.found = (FindOne(users, u) # 0),
                                                    !.args = ref]]
    /\ UNCHANGED <<users, now, tz, msg, tally, fb, rem>>

\* insert_one or update_one, then the menu (lines 75-105)
StartWrite(p) ==
    /\ pc[p] = "start_write"
    /\ users' = IF ~local[p].found
                THEN InsertOne(users, NewUser(local[p].user_id, local[p].username))
                ELSE SetJoined(users, local[p].user_id)
    /\ msg' = Msg(local[p].user_id, "welcome")
    /\ Return(p)
    /\ UNCHANGED <<now, tz, tally, calls, fb, rem>>

\* ---- daily_rewards (lines 162-182) ----
\* lines 163-164: user_id and today
ClaimBegin(p, u) ==
    /\ pc[p] = "idle"
    /\ Begin
    /\ pc' = [pc EXCEPT ![p] = "claim_find"]
    /\ local' = [local EXCEPT ![p] = [NoLocal EXCEPT !.user_id = u, !.now = now]]
    /\ UNCHANGED <<users, now, tz, msg, tally, fb, rem>>

\* the test of lines 171-174 on document doc, for a claim begun at instant t
AlreadyClaimed(doc, t) ==
    /\ doc.last_claimed # NoneT
    /\ DateOf(doc.last_claimed) = DateOf(Today(t))

\* variant: the missing account is created on the way out
ClaimNotFound_Create(p) ==
    /\ msg' = Msg(local[p].user_id, "notfound")
    /\ Return(p)
    /\ users' = InsertOne(users, NewUser(local[p].user_id, Username(local[p].user_id)))
    /\ UNCHANGED tally

\* lines 167-169: no document, reply and return
ClaimNotFound(p) ==
    /\ msg' = Msg(local[p].user_id, "notfound")
    /\ Return(p)
    /\ UNCHANGED <<users, tally>>

\* variant: the reply is sent and the update of lines 178-181 runs all the same
ClaimRefuse_FallThrough(p) ==
    /\ msg' = Msg(local[p].user_id, "already")
    /\ tally' = [tally EXCEPT ![local[p].user_id][UTCDay(local[p].now)].no = @ + 1]
    /\ Return(p)
    /\ users' = SetClaim(users, local[p].user_id,
                         users[FindOne(users, local[p].user_id)].balance + DailyAmount,
                         Today(local[p].now))

\* lines 174-176: claimed today, reply and return
ClaimRefuse(p) ==
    /\ msg' = Msg(local[p].user_id, "already")
    /\ tally' = [tally EXCEPT ![local[p].user_id][UTCDay(local[p].now)].no = @ + 1]
    /\ Return(p)
    /\ UNCHANGED users

\* lines 166, 171-174 passed: the handler goes on to the update with `user` in hand
ClaimEligible(p, doc) ==
    /\ pc' = [pc EXCEPT ![p] = "claim_write"]
    /\ local' = [local EXCEPT ![p].found = TRUE, ![p].balance = doc.balance]
    /\ UNCHANGED <<users, msg, tally>>

\* lines 166-176: find_one and the two early returns
ClaimFind(p) ==
    /\ pc[p] = "claim_find"
    /\ IF FindOne(users, local[p].user_id) = 0
       THEN ClaimNotFound(p)
       ELSE IF AlreadyClaimed(users[FindOne(users, local[p].user_id)], local[p].now)
       THEN ClaimRefuse(p)
       ELSE ClaimEligible(p, users[FindOne(users, local[p].user_id)])
    /\ UNCHANGED <<now, tz, calls, fb, rem>>

\* lines 178-182: update_one with the balance read earlier, success reply
ClaimUpdate(p) ==
    /\ pc[p] = "claim_write"
    /\ users' = SetClaim(users, local[p].user_id,
                         local[p].balance + DailyAmount, Today(local[p].now))
    /\ msg' = Msg(local[p].user_id, "claimed")
    /\ tally' = [tally EXCEPT ![local[p].user_id][UTCDay(local[p].now)].ok = @ + 1]
    /\ Return(p)
    /\ UNCHANGED <<now, tz, calls, fb, rem>>

\* ---- ranking (lines 185-204) ----
ranking(p, u) ==
    /\ pc[p] = "idle"
    /\ Begin
    /\ msg' = IF Matching(users, u) = {}
              THEN Msg(u, "notfound")
              ELSE [Msg(u, "rank") EXCEPT
                        !.rank = Rank(users, RankedDoc(users, u)),
                        !.balance = users[RankedDoc(users, u)].balance]
    /\ UNCHANGED <<users, now, tz, pc, local, tally, fb, rem>>

\* ---- balance (lines 130-139) ----
\* variant: a user without document gets one on the way
balance_Upsert(p, u) ==
    /\ pc[p] = "idle"
    /\ Begin
    /\ msg' = IF FindOne(users, u) = 0
              THEN Msg(u, "notfound")
              ELSE [Msg(u, "balance") EXCEPT !.balance = users[FindOne(users, u)].balance]
    /\ users' = IF FindOne(users, u) = 0 THEN InsertOne(users, NewUser(u, Username(u))) ELSE users
    /\ UNCHANGED <<now, tz, pc, local, tally, fb, rem>>

balance(p, u) ==
    /\ pc[p] = "idle"
    /\ Begin
    /\ msg' = IF FindOne(users, u) = 0
              THEN Msg(u, "notfound")
              ELSE [Msg(u, "balance") EXCEPT !.balance = users[FindOne(users, u)].balance]
    /\ UNCHANGED <<users, now, tz, pc, local, tally, fb, rem>>

\* ---- wallet (lines 207-217) ----
\* the handler receives the callback query only: the address a that the user
\* wants to link has no way into it, and nothing of the step depends on it
wallet(p, u, a) ==
    /\ pc[p] = "idle"
    /\ Begin
    /\ msg' = IF FindOne(users, u) = 0
              THEN Msg(u, "notfound")
              ELSE [Msg(u, "wallet") EXCEPT
                        !.wallet = users[FindOne(users, u)].wallet,
                        !.balance = users[FindOne(users, u)].balance]
    /\ UNCHANGED <<users, now, tz, pc, local, tally, fb, rem>>

\* ---- invite_friends (lines 142-146) ----
invite_friends(p, u) ==
    /\ pc[p] = "idle"
    /\ Begin
    /\ msg' = Msg(u, "invite")
    /\ UNCHANGED <<users, now, tz, pc, local, tally, fb, rem>>

\* ---- button with callback data outside handler_mapping (lines 121-127) ----
unknown(p, u) ==
    /\ pc[p] = "idle"
    /\ Begin
    /\ msg' = Msg(u, "unknown")
    /\ UNCHANGED <<users, now, tz, pc, local, tally, fb, rem>>

\* ---- leaderboard (lines 149-159) ----
leaderboard(p, u) ==
    /\ pc[p] = "idle"
    /\ Begin
    /\ \E f \in SortedByBalance(users) :
          msg' = [Msg(u, "leaderboard") EXCEPT
                     !.board = Board(users, Limit(f, LeaderboardLimit))]
    /\ UNCHANGED <<users, now, tz, pc, local, tally, fb, rem>>

Next ==
    \/ Tick
    \/ \E p \in Procs, u \in UserIds : StartNotMember(p, u)
    \/ \E p \in Procs, u \in UserIds, ref \in {0} \cup Inviters : StartFind(p, u, ref)
    \/ \E p \in Procs : StartWrite(p)
    \/ \E p \in Procs, u \in UserIds : ClaimBegin(p, u)
    \/ \E p \in Procs : ClaimFind(p)
    \/ \E p \in Procs : ClaimUpdate(p)
    \/ \E p \in Procs, u \in UserIds : ranking(p, u)
    \/ \E p \in Procs, u \in UserIds : leaderboard(p, u)

\* ---- daily_reminder and send_push_notification (lines 220-249) ----
\* lines 247-249, 242: the interval job fires once a day, its k-th run not
\* before k days after start-up; find() gives the documents of the collection
daily_reminder ==
    /\ rem.pc = "idle"
    /\ rem.runs < now \div TicksPerDay
    /\ rem' = [pc |-> "loop", i |-> 1, n |-> Len(users), runs |-> rem.runs + 1,
               reached |-> 0, sent |-> 0]
    /\ UNCHANGED <<users, now, tz, pc, local, msg, tally, calls, fb>>

\* lines 243-244, 221-237: one turn of the loop.  initialize_app raises
\* ValueError when the default app exists already; nothing catches it, so the
\* run ends there.  Otherwise the app is created and messaging.send is
\* reached: it returns, or raises (as it does for a document without
\* device_token) and ends the run
send_push_notification ==
    /\ rem.pc = "loop"
    /\ rem.i <= rem.n
    /\ IF fb
       THEN /\ rem' = [rem EXCEPT !.pc = "idle"]
            /\ fb' = fb
       ELSE /\ fb' = TRUE
            /\ \/ rem' = [rem EXCEPT !.i = @ + 1, !.reached = @ + 1, !.sent = @ + 1]
               \/ rem' = [rem EXCEPT !.pc = "idle", !.reached = @ + 1]
    /\ UNCHANGED <<users, now, tz, pc, local, msg, tally, calls>>

\* line 243: the cursor is exhausted, the run is over
ReminderDone ==
    /\ rem.pc = "loop"
    /\ rem.i > rem.n
    /\ rem' = [rem EXCEPT !.pc = "idle"]
    /\ UNCHANGED <<users, now, tz, pc, local, msg, tally, calls, fb>>

\* the invocations of start, daily_rewards, ranking and leaderboard interleave
\* between their store calls
Spec == Init /\ [][Next]_vars

\* every handler, invocations run one at a time: an invocation begins only
\* when no other is in progress
NextSeq ==
    \/ Tick
    \/ AllIdle /\ \E p \in Procs, u \in UserIds : StartNotMember(p, u)
    \/ AllIdle /\ \E p \in Procs, u \in UserIds, ref \in {0} \cup Inviters : StartFind(p, u, ref)
    \/ \E p \in Procs : StartWrite(p)
    \/ AllIdle /\ \E p \in Procs, u \in UserIds : ClaimBegin(p, u)
    \/ \E p \in Procs : ClaimFind(p)
    \/ \E p \in Procs : ClaimUpdate(p)
    \/ AllIdle /\ \E p \in Procs, u \in UserIds : ranking(p, u)
    \/ AllIdle /\ \E p \in Procs, u \in UserIds : leaderboard(p, u)
    \/ AllIdle /\ \E p \in Procs, u \in UserIds : balance(p, u)
    \/ AllIdle /\ \E p \in Procs, u \in UserIds, a \in Addresses : wallet(p, u, a)
    \/ AllIdle /\ \E p \in Procs, u \in UserIds : invite_friends(p, u)
    \/ AllIdle /\ \E p \in Procs, u \in UserIds : unknown(p, u)

SpecSeq == Init /\ [][NextSeq]_vars

\* the scheduler's thread runs the reminder job beside the handlers that fill
\* the collection
NextReminder ==
    \/ Tick
    \/ \E p \in Procs, u \in UserIds : StartNotMember(p, u)
    \/ \E p \in Procs, u \in UserIds, ref \in {0} \cup Inviters : StartFind(p, u, ref)
    \/ \E p \in Procs : StartWrite(p)
    \/ daily_reminder
    \/ send_push_notification
    \/ ReminderDone

SpecReminder == Init /\ [][NextReminder]_vars

\* ---- properties ----
\* the stored account of user u: the document find_one returns
Account(u) == users[FindOne(users, u)]
Days == 0..UTCDay(MaxNow)
\* slot p holds a daily_rewards invocation of user u
Claiming(p, u) == pc[p] \in {"claim_find", "claim_write"} /\ local[p].user_id = u

\* C1: for any account and any UTC calendar day, when two or more daily-claim
\* invocations of that account run on that day, whatever the interleaving of
\* their find_one and update_one, exactly one of them replies success and the
\* others reply already-claimed.
C1_ExactlyOneCredited ==
    \A u \in UserIds, d \in Days :
        tally[u][d].ok + tally[u][d].no >= 2 => tally[u][d].ok = 1

\* C2: after one or more daily-claim invocations of an account that all run
\* within one UTC calendar day, the stored balance is exactly DailyAmount
\* higher than before the first of them.  Stated for the first claims an
\* account ever makes, where the balance before them is the creation balance 0.
C2_OneDayPlusTen ==
    \A u \in UserIds, d \in Days :
        ( /\ \A e \in Days \ {d} : tally[u][e].ok + tally[u][e].no = 0
          /\ \A p \in Procs : Claiming(p, u) => UTCDay(local[p].now) = d
          /\ tally[u][d].ok + tally[u][d].no >= 1 )
        => Account(u).balance = DailyAmount

\* C3: every stored balance is >= 0 and no step of any handler lowers it.
C3_BalanceNeverDecreases ==
    [][\A i \in 1..Len(users) :
          users[i].balance >= 0 /\ users'[i].balance >= users[i].balance]_vars

\* C4: when daily-claim invocations run one at a time, an invocation is
\* credited if and only if no earlier invocation of the account was credited on
\* the same UTC calendar day, and a credited invocation raises the balance by
\* exactly DailyAmount.
C4_SeqCreditedIffFirstOfDay ==
    [][\A p \in Procs :
          LET u == local[p].user_id
              d == UTCDay(local[p].now)
          IN  /\ (pc[p] = "claim_find" /\ pc'[p] = "idle" /\ FindOne(users, u) # 0)
                    => tally[u][d].ok >= 1
              /\ (pc[p] = "claim_write" /\ pc'[p] = "idle")
                    => /\ tally[u][d].ok = 0
                       /\ users'[FindOne(users, u)].balance = Account(u).balance + DailyAmount]_vars

\* C5: a daily-claim invocation that finds the account already claimed today
\* changes no document of the store and returns without reaching the update.
C5_IneligibleNoMutation ==
    [][\A p \in Procs :
          ( /\ pc[p] = "claim_find" /\ pc'[p] # "claim_find"
            /\ FindOne(users, local[p].user_id) # 0
            /\ AlreadyClaimed(Account(local[p].user_id), local[p].now) )
          => (users' = users /\ pc'[p] = "idle")]_vars

\* an already-claimed reply has been sent to a user whose account holds a claim
C5_Witness ==
    \E u \in UserIds, d \in Days :
        /\ msg = Msg(u, "already")
        /\ tally[u][d].no >= 1
        /\ FindOne(users, u) # 0
        /\ Account(u).last_claimed # NoneT

\* no document has one of balance, last_claimed at its creation value and the
\* other not
ClaimFieldsTogether ==
    \A i \in 1..Len(users) : (users[i].balance = 0) <=> (users[i].last_claimed = NoneT)
\* in this step slot p completes the update of a successful claim
Credits(p) == pc[p] = "claim_write" /\ pc'[p] = "idle"
\* document i has balance or last_claimed changed by this step
ClaimFieldsChange(i) ==
    \/ users'[i].balance # users[i].balance
    \/ users'[i].last_claimed # users[i].last_claimed

Registered == {u \in UserIds : FindOne(users, u) # 0}
\* the rank the ranking handler reports to user u
RankOf(u) == Rank(users, RankedDoc(users, u))

\* C7: the ranks the ranking handler reports to the registered users are
\* pairwise distinct and are exactly 1..N for N registered users, also when
\* balances are equal.
C7_RanksDistinct ==
    /\ \A u, v \in Registered : u # v => RankOf(u) # RankOf(v)
    /\ {RankOf(u) : u \in Registered} = 1..Cardinality(Registered)

\* the total order balance descending, earlier-created first among equals
ByBalanceThenCreation(us) ==
    CHOOSE f \in SortedByBalance(us) :
        \A a, b \in 1..Len(us) :
            (a < b /\ us[f[a]].balance = us[f[b]].balance) => f[a] < f[b]

\* C8: a leaderboard reply lists the first min(limit, N) accounts of the total
\* order balance descending, ties broken by creation order.
C8_LeaderboardTotalOrder ==
    [][(calls' # calls /\ msg'.text = "leaderboard")
          => msg'.board = Board(users, Limit(ByBalanceThenCreation(users), LeaderboardLimit))]_vars

\* C9: whatever start invocations have run, one after another or interleaved,
\* the store holds at most one document per user_id, created with balance 0
\* and last_claimed unset.
C9_OneRecordPerUser ==
    /\ [](\A u \in UserIds : Cardinality(Matching(users, u)) <= 1)
    /\ [][Len(users') > Len(users) =>
            /\ users'[Len(users')].balance = 0
            /\ users'[Len(users')].last_claimed = NoneT]_vars

\* C10: a start invocation that found the user's document changes no field of
\* any document other than joined_channel of that user's document, and adds
\* and removes no document; its find_one step changes nothing.
C10_StartKeepsAccount ==
    [][\A p \in Procs :
          /\ (pc[p] = "idle" /\ pc'[p] = "start_write") => users' = users
          /\ (pc[p] = "start_write" /\ pc'[p] = "idle" /\ local[p].found) =>
                /\ Len(users') = Len(users)
                /\ \A i \in 1..Len(users) :
                      /\ users'[i] = [users[i] EXCEPT !.joined_channel = users'[i].joined_channel]
                      /\ users[i].user_id # local[p].user_id => users'[i] = users[i]]_vars

\* a start has completed for a user whose one document holds a credited claim,
\* next to the document of another user
C10_Witness ==
    \E u \in UserIds :
        /\ msg = Msg(u, "welcome")
        /\ Cardinality(Matching(users, u)) = 1
        /\ Account(u).balance >= DailyAmount
        /\ Account(u).last_claimed # NoneT
        /\ \E v \in UserIds \ {u} : FindOne(users, v) # 0

\* C11: when a start of an existing user and a daily claim of the same user
\* interleave, neither write undoes the other: the step that completes the
\* start leaves balance and last_claimed of the account as they are and
\* joined_channel true, and the step that completes the claim leaves
\* joined_channel as it is and stores the claim's balance and last_claimed.
C11_BothWritesPersist ==
    [][\A p \in Procs :
          LET u == local[p].user_id
              i == FindOne(users, u)
          IN  /\ (pc[p] = "start_write" /\ pc'[p] = "idle" /\ local[p].found) =>
                    /\ users'[i].joined_channel
                    /\ users'[i].balance = users[i].balance
                    /\ users'[i].last_claimed = users[i].last_claimed
              /\ (pc[p] = "claim_write" /\ pc'[p] = "idle") =>
                    /\ users'[i].joined_channel = users[i].joined_channel
                    /\ users'[i].joined_channel
                    /\ users'[i].balance = local[p].balance + DailyAmount
                    /\ users'[i].last_claimed = Today(local[p].now)]_vars

\* a start that found the account and a claim that read it are both in
\* progress for the same user, each with its write still to come
C11_Witness ==
    \E p, q \in Procs :
        /\ pc[p] = "start_write" /\ local[p].found
        /\ pc[q] = "claim_write"
        /\ local[p].user_id = local[q].user_id

\* the replies that show or change an account
AccountReplies == {"balance", "rank", "wallet", "claimed", "already"}

\* C12: balance, daily claim, ranking and wallet view, invoked for a user that
\* has no account, reply not-found and leave the store as it was: no account
\* is created for the user and no other account is modified; no reply that
\* shows an account is ever sent to such a user.
C12_MissingAccountNotFound ==
    [][\A u \in UserIds :
          FindOne(users, u) = 0 =>
              /\ \A p \in Procs :
                    (balance(p, u) \/ ranking(p, u) \/ \E a \in Addresses : wallet(p, u, a))
                        => (msg' = Msg(u, "notfound") /\ users' = users)
              /\ \A p \in Procs :
                    (pc[p] = "claim_find" /\ local[p].user_id = u /\ pc'[p] # "claim_find")
                        => (msg' = Msg(u, "notfound") /\ users' = users /\ pc'[p] = "idle")
              /\ (msg'.chat = u) => (msg'.text \notin AccountReplies)]_vars

\* a not-found reply went to a user without account while another user has one
C12_Witness ==
    \E u \in UserIds :
        /\ msg = Msg(u, "notfound")
        /\ FindOne(users, u) = 0
        /\ users # <<>>
        /\ \A p \in Procs : ~Claiming(p, u)
        /\ calls >= 2

\* in this step slot p completes the registration of a new user who came by
\* the referral link of the registered user a
RegistersReferred(p, a) ==
    /\ pc[p] = "start_write" /\ pc'[p] = "idle"
    /\ ~local[p].found
    /\ local[p].args = a
    /\ a # local[p].user_id
    /\ FindOne(users, a) # 0

\* C13: when a new user B registers through the referral link of an existing
\* user A other than B, A's balance is credited with the referral bonus in
\* that registration, and the balance of nobody else changes.
C13_ReferralCreditsInviter ==
    [][\A p \in Procs, a \in UserIds :
          RegistersReferred(p, a) =>
              /\ users'[FindOne(users, a)].balance > users[FindOne(users, a)].balance
              /\ \A i \in 1..Len(users) :
                    i # FindOne(users, a) => users'[i].balance = users[i].balance]_vars

\* prefix 0x, total length 42, 40 hexadecimal digits
WellFormed(a) == Shape(a).prefix = "0x" /\ Shape(a).length = 42 /\ Shape(a).hex

\* C14: when a registered user gives the wallet command the address a, a
\* well-formed a is stored as the account's wallet and the reply says it was
\* linked; an a with a non-hex character or of another length is rejected and
\* the stored wallet stays as it was.
C14_LinkWalletPersists ==
    [][\A p \in Procs, u \in UserIds, a \in Addresses :
          (wallet(p, u, a) /\ FindOne(users, u) # 0) =>
              IF WellFormed(a)
              THEN /\ users'[FindOne(users, u)].wallet = a
                   /\ msg'.text = "linked"
              ELSE /\ users'[FindOne(users, u)].wallet = users[FindOne(users, u)].wallet
                   /\ msg'.text = "rejected"]_vars

\* C15: the rank reported by the ranking handler preserves the order of the
\* balances (of two accounts the one with the higher balance has the smaller
\* rank), lies between 1 and the number of accounts, and a ranking reply
\* carries that rank together with the balance the account holds at the call.
C15_RankOrderPreserving ==
    /\ [](\A u, v \in Registered :
            /\ Account(u).balance > Account(v).balance => RankOf(u) < RankOf(v)
            /\ RankOf(u) \in 1..Cardinality(Registered))
    /\ [][\A p \in Procs, u \in Registered :
            ranking(p, u) =>
                /\ msg'.text = "rank"
                /\ msg'.rank = RankOf(u)
                /\ msg'.balance = Account(u).balance]_vars

\* a ranking reply has put a user behind another one of higher balance
C15_Witness ==
    \E u, v \in Registered :
        /\ msg.text = "rank" /\ msg.chat = u
        /\ msg.rank = 2
        /\ msg.balance = Account(u).balance
        /\ Account(v).balance > Account(u).balance

\* C16: a run of the daily reminder over a collection of N >= 2 documents, in
\* which no send itself fails, reaches the send step for every one of the N
\* documents before it ends.
C16_ReminderReachesAll ==
    [][(rem.pc = "loop" /\ rem'.pc = "idle" /\ rem.n >= 2 /\ rem'.sent = rem'.reached)
          => rem'.reached = rem.n]_vars

\* the texts the query handlers reply with
QueryReplies == {"balance", "leaderboard", "rank", "wallet", "invite", "unknown", "notfound"}

\* C17: an invocation of balance, leaderboard, ranking, wallet, invite_friends
\* or of the button callback with an unknown action (the invocations that
\* begin and reply in one step with one of the query replies) leaves the
\* whole collection as it was, whether or not the caller has an account.
C17_QueriesLeaveStore ==
    [][(calls' # calls /\ pc' = pc /\ msg'.text \in QueryReplies) => users' = users]_vars

\* a query was answered for a user without account, beside a credited account
C17_Witness ==
    \E u, v \in UserIds :
        /\ msg.chat = u /\ msg.text \in {"invite", "unknown", "leaderboard"}
        /\ FindOne(users, u) = 0
        /\ FindOne(users, v) # 0
        /\ Account(v).balance > 0

\* C18: every document of the collection has joined_channel true, and a start
\* by a user who is not a member of the channel (the invocation that replies
\* with the request to join) leaves the collection as it was.
C18_GateHolds ==
    /\ [](\A i \in 1..Len(users) : users[i].joined_channel)
    /\ [][(calls' # calls /\ pc' = pc /\ msg'.text = "join") => users' = users]_vars

\* a user without account was asked to join while another account was credited
C18_Witness ==
    \E u, v \in UserIds :
        /\ msg = Msg(u, "join")
        /\ FindOne(users, u) = 0
        /\ FindOne(users, v) # 0
        /\ Account(v).balance > 0
        /\ Account(v).joined_channel

\* the number of success replies sent to user u for claims begun up to UTC day d
RECURSIVE SuccessReplies(_, _)
SuccessReplies(u, d) == IF d < 0 THEN 0 ELSE tally[u][d].ok + SuccessReplies(u, d - 1)

\* C19: the stored balance of every account is DailyAmount times the number
\* of daily-claim invocations of that account that have replied success.
C19_RepliesAgreeWithLedger ==
    \A u \in Registered :
        Account(u).balance = DailyAmount * SuccessReplies(u, UTCDay(MaxNow))

====
